---- MODULE Spec2Model ----
(***************************************************************************)
(* Nomination lifecycle of the talent pool cog                              *)
(* (bot/cogs/watchchannels/talentpool.py).                                  *)
(*                                                                          *)
(* Every command invocation is a coroutine: it runs atomically between two *)
(* awaits.  An awaited HTTP call is split into the step in which the       *)
(* remote store serves the request and the step in which the coroutine     *)
(* resumes with the response, so that other invocations interleave at      *)
(* every await of the source.                                              *)
(***************************************************************************)
EXTENDS Integers, Sequences, FiniteSets, TLC

VARIABLES store, watched_users, pc, cmd, args, log, resp, outcome, invoked

vars == <<store, watched_users, pc, cmd, args, log, resp, outcome, invoked>>

(* ------------------------------ bounds --------------------------------- *)

\* Most nominations the store accepts in a run.
MaxNoms == 2

\* Most command invocations in a run.
MaxCmds == 3

\* Concurrent command invocations (coroutines of the event loop).
Procs == {"p1", "p2"}

\* Ids of the accounts commands are aimed at, and of the invoking moderator.
UserIds == {"u1", "u2"}
Author == "mod"

\* Reason texts given to watch and unwatch, and the new text given to edit.
Reasons == {"r1"}
NewReasons == {"r2"}

\* What a command can be aimed at: the id and what lines 59 and 63 read
\* (user.bot, isinstance(user, Member), a role of STAFF_ROLES among user.roles).
UserObjects == [id : UserIds, bot : BOOLEAN, member : BOOLEAN, staff_role : BOOLEAN]

(* --------------------------- remote store ------------------------------ *)

NoReason == ""

\* HTTP statuses the model distinguishes.
Ok == 200
Created == 201
BadRequest == 400
NotFound == 404
ServerError == 500

NoResp == [status |-> 0, data |-> <<>>, err |-> {}]
Response(status, data, err) == [status |-> status, data |-> data, err |-> err]

Ids == 1..Len(store)

\* The record the store makes of a create request.
NewNomination(id, json) ==
    [id |-> id, user |-> json.user, actor |-> json.actor, reason |-> json.reason,
     active |-> TRUE, end_reason |-> NoReason]

\* A partial update: the fields the request names are replaced.
Field(rec, json, k) == IF k \in DOMAIN json THEN json[k] ELSE rec[k]

Patched(rec, json) ==
    [id |-> rec.id, user |-> rec.user, actor |-> rec.actor,
     reason |-> Field(rec, json, "reason"),
     active |-> Field(rec, json, "active"),
     end_reason |-> Field(rec, json, "end_reason")]

RECURSIVE Filtered(_, _)
\* The records of the sequence s that match the query parameters, in order.
Filtered(s, params) ==
    IF s = <<>> THEN <<>>
    ELSE LET n == Head(s)
             keep == /\ ("active" \in DOMAIN params => n.active = (params.active = "true"))
                     /\ ("user__id" \in DOMAIN params => n.user = params.user__id)
         IN  (IF keep THEN <<n>> ELSE <<>>) \o Filtered(Tail(s), params)

Reverse(s) == [i \in 1..Len(s) |-> s[Len(s) + 1 - i]]

\* LIST: the matching records, newest first (ordering=-inserted_at).
Listing(params) == Reverse(Filtered(store, params))

(* ------------------------- talentpool.py ------------------------------- *)

\* TalentPool.__init__: api_default_params.
api_default_params == [active |-> "true", ordering |-> "-inserted_at"]

\* unwatch_command: ChainMap(self.api_default_params, {"user__id": str(user.id)}).
UnwatchParams(user_id) ==
    [k \in DOMAIN api_default_params \cup {"user__id"} |->
        IF k \in DOMAIN api_default_params THEN api_default_params[k] ELSE user_id]

\* The bot flag is not looked at.
IsBotUnchecked(user) == FALSE

\* watch_command: `if user.bot`.
IsBot(user) == user.bot

\* watch_command: isinstance(user, Member) and any(role.id in STAFF_ROLES ...).
IsStaff(user) == user.member /\ user.staff_role

\* The result of fetch_user_cache is ignored.
CacheUpdateFailedIgnored(fetched) == FALSE

\* watch_command: `if not await self.fetch_user_cache()`.
CacheUpdateFailed(fetched) == ~fetched

\* The membership test is made with str(user.id), which is no key of the cache.
AlreadyWatchedByStrId(user_id, cache) == <<"str", user_id>> \in DOMAIN cache

\* watch_command: `if user.id in self.watched_users`.
AlreadyWatched(user_id, cache) == user_id \in DOMAIN cache

\* watch_command: the json of the create request.
CreateJson(actor, reason, user_id) == [actor |-> actor, reason |-> reason, user |-> user_id]

\* The unknown user is looked for under status 404.
UserNotFoundAs404(r) == r.status = NotFound /\ "user" \in r.err

\* The body of the 400 is not looked at.
UserNotFoundByStatus(r) == r.status = BadRequest

\* watch_command: resp.status == 400 and response_data.get('user', False).
UserNotFound(r) == r.status = BadRequest /\ "user" \in r.err

\* An empty result is not told from a missing one (`is None`).
NoActiveNominationIsNone(data) == FALSE

\* unwatch_command: `if not active_nomination`.
NoActiveNomination(data) == data = <<>>

\* The first match is taken (`nomination = active_nomination[0]`).
SingleNominationUnchecked(data) == TRUE

\* unwatch_command: `[nomination] = active_nomination` takes exactly one record.
SingleNomination(data) == Len(data) = 1

\* unwatch_command: the json of the ending update.
EndJson(reason) == [end_reason |-> reason, active |-> FALSE]

\* The not-found status is taken to be 400.
IsNotFoundAs400(r) == r.status = BadRequest

\* edit_reason_command: `if e.response.status == 404`.
IsNotFound(r) == r.status = NotFound

\* The field does not depend on the status of the nomination.
EditFieldAlwaysReason(nomination) == "reason"

\* edit_reason_command: "reason" if nomination["active"] else "end_reason".
EditField(nomination) == IF nomination.active THEN "reason" ELSE "end_reason"

\* edit_reason_command: json={field: reason}.
EditJson(field, reason) == [k \in {field} |-> reason]

\* ResponseCodeError is raised by the api client for a status of 400 or more.
Raises(r) == r.status >= BadRequest

(* ------------------------- watchchannel.py ----------------------------- *)

\* fetch_user_cache: False when the LIST raised ResponseCodeError, else True.
FetchUserCache(r) == ~Raises(r)

\* fetch_user_cache: the cache rebuilt from the listed active nominations.
UserCache(data) ==
    [u \in {data[i].user : i \in 1..Len(data)} |->
        data[CHOOSE i \in 1..Len(data) :
                /\ data[i].user = u
                /\ \A j \in 1..Len(data) : data[j].user = u => j <= i]]

\* _remove_user: self.watched_users.pop(user_id, None).
RemoveUser(cache, user_id) == [u \in DOMAIN cache \ {user_id} |-> cache[u]]

\* self.watched_users[user.id] = response_data.
InsertUser(cache, user_id, rec) ==
    [u \in DOMAIN cache \cup {user_id} |-> IF u = user_id THEN rec ELSE cache[u]]

(* ------------------------------ requests ------------------------------- *)

NoArgs == [user |-> [id |-> "", bot |-> FALSE, member |-> FALSE, staff_role |-> FALSE],
           reason |-> NoReason, nomination_id |-> 0]

Request(method, id, body) == [method |-> method, id |-> id, body |-> body]

\* The request of p that is in flight.
Req(p) == log[p][Len(log[p])]

Issue(p, request) == log' = [log EXCEPT ![p] = Append(@, request)]

Finish(p, result) ==
    /\ pc' = [pc EXCEPT ![p] = "done"]
    /\ outcome' = [outcome EXCEPT ![p] = result]

Goto(p, label) == pc' = [pc EXCEPT ![p] = label]

(* -------------------------------- Init --------------------------------- *)

Init ==
    /\ store = <<>>
    /\ watched_users = UserCache(<<>>)
    /\ pc = [p \in Procs |-> "idle"]
    /\ cmd = [p \in Procs |-> "none"]
    /\ args = [p \in Procs |-> NoArgs]
    /\ log = [p \in Procs |-> <<>>]
    /\ resp = [p \in Procs |-> NoResp]
    /\ outcome = [p \in Procs |-> "none"]
    /\ invoked = 0

(* --------------------- the store serves a request ---------------------- *)

\* LIST /nominations?params -> [record...]
StoreList(p) ==
    /\ pc[p] \in {"w_fetch", "u_get"}
    /\ \E ok \in BOOLEAN :
          resp' = [resp EXCEPT ![p] =
                      IF ok THEN Response(Ok, Listing(Req(p).body), {})
                      ELSE Response(ServerError, <<>>, {})]
    /\ Goto(p, IF pc[p] = "w_fetch" THEN "w_fetched" ELSE "u_got")
    /\ UNCHANGED <<store, watched_users, cmd, args, log, outcome, invoked>>

\* GET /nominations/{id} -> record | 404
StoreGet(p) ==
    /\ pc[p] = "e_get"
    /\ \E ok \in BOOLEAN :
          resp' = [resp EXCEPT ![p] =
                      IF ~ok THEN Response(ServerError, <<>>, {})
                      ELSE IF Req(p).id \in Ids THEN Response(Ok, <<store[Req(p).id]>>, {})
                      ELSE Response(NotFound, <<>>, {})]
    /\ Goto(p, "e_got")
    /\ UNCHANGED <<store, watched_users, cmd, args, log, outcome, invoked>>

\* CREATE /nominations {actor, reason, user} -> record | 400 validation error | other error
StoreCreate(p) ==
    /\ pc[p] = "w_post"
    /\ \/ /\ Len(store) < MaxNoms
          /\ LET rec == NewNomination(Len(store) + 1, Req(p).body)
             IN  /\ store' = Append(store, rec)
                 /\ resp' = [resp EXCEPT ![p] = Response(Created, <<rec>>, {})]
       \/ /\ \E r \in {Response(BadRequest, <<>>, {"user"}),
                       Response(BadRequest, <<>>, {"reason"}),
                       Response(ServerError, <<>>, {})} :
                resp' = [resp EXCEPT ![p] = r]
          /\ UNCHANGED store
    /\ Goto(p, "w_posted")
    /\ UNCHANGED <<watched_users, cmd, args, log, outcome, invoked>>

\* PATCH /nominations/{id} {field: value, ...} -> record
StorePatch(p) ==
    /\ pc[p] \in {"u_patch", "e_patch"}
    /\ \/ /\ Req(p).id \in Ids
          /\ LET rec == Patched(store[Req(p).id], Req(p).body)
             IN  /\ store' = [store EXCEPT ![Req(p).id] = rec]
                 /\ resp' = [resp EXCEPT ![p] = Response(Ok, <<rec>>, {})]
       \/ /\ resp' = [resp EXCEPT ![p] = Response(ServerError, <<>>, {})]
          /\ UNCHANGED store
    /\ Goto(p, IF pc[p] = "u_patch" THEN "u_patched" ELSE "e_patched")
    /\ UNCHANGED <<watched_users, cmd, args, log, outcome, invoked>>

(* ---------------------------- watch_command ---------------------------- *)

Invoke(p, name, a) ==
    /\ pc[p] = "idle"
    /\ invoked < MaxCmds
    /\ invoked' = invoked + 1
    /\ cmd' = [cmd EXCEPT ![p] = name]
    /\ args' = [args EXCEPT ![p] = a]

\* Lines 59-67: the policy checks, then fetch_user_cache issues its LIST.
WatchInvokeWith(p, reasons) ==
    \E user \in UserObjects, reason \in reasons :
        /\ Invoke(p, "watch", [NoArgs EXCEPT !.user = user, !.reason = reason])
        /\ IF IsBot(user) THEN
              /\ Finish(p, "only_humans")
              /\ UNCHANGED log
           ELSE IF IsStaff(user) THEN
              /\ Finish(p, "staff_member")
              /\ UNCHANGED log
           ELSE
              /\ Issue(p, Request("GET", 0, api_default_params))
              /\ Goto(p, "w_fetch")
              /\ UNCHANGED outcome
        /\ UNCHANGED <<store, watched_users, resp>>

WatchInvoke(p) == WatchInvokeWith(p, Reasons)

\* The membership test is made on the cache as it was before the refresh.
WatchFetchedStale(p) ==
    /\ pc[p] = "w_fetched"
    /\ IF CacheUpdateFailed(FetchUserCache(resp[p])) THEN
          /\ Finish(p, "cache_update_failed")
          /\ UNCHANGED <<watched_users, log>>
       ELSE
          /\ watched_users' = UserCache(resp[p].data)
          /\ IF AlreadyWatched(args[p].user.id, watched_users) THEN
                /\ Finish(p, "already_watched")
                /\ UNCHANGED log
             ELSE
                /\ Issue(p, Request("POST", 0,
                                    CreateJson(Author, args[p].reason, args[p].user.id)))
                /\ Goto(p, "w_post")
                /\ UNCHANGED outcome
    /\ UNCHANGED <<store, cmd, args, resp, invoked>>

\* Lines 67-86: fetch_user_cache resumes, the membership check, the create request.
WatchFetched(p) ==
    /\ pc[p] = "w_fetched"
    /\ IF CacheUpdateFailed(FetchUserCache(resp[p])) THEN
          /\ Finish(p, "cache_update_failed")
          /\ UNCHANGED <<watched_users, log>>
       ELSE
          /\ watched_users' = UserCache(resp[p].data)
          /\ IF AlreadyWatched(args[p].user.id, watched_users') THEN
                /\ Finish(p, "already_watched")
                /\ UNCHANGED log
             ELSE
                /\ Issue(p, Request("POST", 0,
                                    CreateJson(Author, args[p].reason, args[p].user.id)))
                /\ Goto(p, "w_post")
                /\ UNCHANGED outcome
    /\ UNCHANGED <<store, cmd, args, resp, invoked>>

\* Lines 87-96: the response of the create request.
WatchPosted(p) ==
    /\ pc[p] = "w_posted"
    /\ IF UserNotFound(resp[p]) THEN
          /\ Finish(p, "user_not_found")
          /\ UNCHANGED watched_users
       ELSE IF Raises(resp[p]) THEN
          /\ Finish(p, "raised")
          /\ UNCHANGED watched_users
       ELSE
          /\ watched_users' = InsertUser(watched_users, args[p].user.id, resp[p].data[1])
          /\ \E sent \in BOOLEAN : Finish(p, IF sent THEN "watching" ELSE "raised")
    /\ UNCHANGED <<store, cmd, args, log, resp, invoked>>

(* --------------------------- unwatch_command --------------------------- *)

\* Lines 135-141: the query for the user's active nomination.
UnwatchInvokeWith(p, reasons) ==
    \E id \in UserIds, reason \in reasons :
        /\ Invoke(p, "unwatch", [NoArgs EXCEPT !.user.id = id, !.reason = reason])
        /\ Issue(p, Request("GET", 0, UnwatchParams(id)))
        /\ Goto(p, "u_get")
        /\ UNCHANGED <<store, watched_users, resp, outcome>>

UnwatchInvoke(p) == UnwatchInvokeWith(p, Reasons)

\* Lines 143-151: the result of the query, the ending update.
UnwatchGot(p) ==
    /\ pc[p] = "u_got"
    /\ IF Raises(resp[p]) THEN
          /\ Finish(p, "raised")
          /\ UNCHANGED log
       ELSE IF NoActiveNomination(resp[p].data) THEN
          /\ Finish(p, "no_active_nomination")
          /\ UNCHANGED log
       ELSE IF ~SingleNomination(resp[p].data) THEN
          /\ Finish(p, "raised")
          /\ UNCHANGED log
       ELSE
          /\ Issue(p, Request("PATCH", resp[p].data[1].id, EndJson(args[p].reason)))
          /\ Goto(p, "u_patch")
          /\ UNCHANGED outcome
    /\ UNCHANGED <<store, watched_users, cmd, args, resp, invoked>>

\* The user is evicted as soon as the update is answered, whatever the answer.
UnwatchPatchedEvicting(p) ==
    /\ pc[p] = "u_patched"
    /\ watched_users' = RemoveUser(watched_users, args[p].user.id)
    /\ IF Raises(resp[p]) THEN Finish(p, "raised")
       ELSE Goto(p, "u_send") /\ UNCHANGED outcome
    /\ UNCHANGED <<store, cmd, args, log, resp, invoked>>

\* Lines 148-152: the update is answered; the confirmation is sent.
UnwatchPatched(p) ==
    /\ pc[p] = "u_patched"
    /\ IF Raises(resp[p]) THEN Finish(p, "raised")
       ELSE Goto(p, "u_send") /\ UNCHANGED outcome
    /\ UNCHANGED <<store, watched_users, cmd, args, log, resp, invoked>>

\* Lines 152-153: ctx.send returns or raises; then _remove_user.
UnwatchSent(p) ==
    /\ pc[p] = "u_send"
    /\ \E sent \in BOOLEAN :
          IF sent THEN
             /\ watched_users' = RemoveUser(watched_users, args[p].user.id)
             /\ Finish(p, "unwatched")
          ELSE
             /\ Finish(p, "raised")
             /\ UNCHANGED watched_users
    /\ UNCHANGED <<store, cmd, args, log, resp, invoked>>

(* ------------------------- edit_reason_command ------------------------- *)

\* Line 171: the fetch by id.
EditInvoke(p) ==
    \E id \in 1..MaxNoms, reason \in NewReasons :
        /\ Invoke(p, "edit", [NoArgs EXCEPT !.nomination_id = id, !.reason = reason])
        /\ Issue(p, Request("GET", id, <<>>))
        /\ Goto(p, "e_get")
        /\ UNCHANGED <<store, watched_users, resp, outcome>>

\* Lines 172-187: the fetched record, the choice of the field, the update.
EditGot(p) ==
    /\ pc[p] = "e_got"
    /\ IF IsNotFound(resp[p]) THEN
          /\ Finish(p, "not_found")
          /\ UNCHANGED log
       ELSE IF Raises(resp[p]) THEN
          /\ Finish(p, "raised")
          /\ UNCHANGED log
       ELSE
          /\ Issue(p, Request("PATCH", args[p].nomination_id,
                              EditJson(EditField(resp[p].data[1]), args[p].reason)))
          /\ Goto(p, "e_patch")
          /\ UNCHANGED outcome
    /\ UNCHANGED <<store, watched_users, cmd, args, resp, invoked>>

\* Lines 184-189: the update is answered.
EditPatched(p) ==
    /\ pc[p] = "e_patched"
    /\ Finish(p, IF Raises(resp[p]) THEN "raised" ELSE "updated")
    /\ UNCHANGED <<store, watched_users, cmd, args, log, resp, invoked>>

\* The coroutine of a finished command is gone.
Return(p) ==
    /\ pc[p] = "done"
    /\ pc' = [pc EXCEPT ![p] = "idle"]
    /\ cmd' = [cmd EXCEPT ![p] = "none"]
    /\ args' = [args EXCEPT ![p] = NoArgs]
    /\ log' = [log EXCEPT ![p] = <<>>]
    /\ resp' = [resp EXCEPT ![p] = NoResp]
    /\ outcome' = [outcome EXCEPT ![p] = "none"]
    /\ UNCHANGED <<store, watched_users, invoked>>

Next ==
    \E p \in Procs :
        \/ WatchInvoke(p) \/ WatchFetched(p) \/ WatchPosted(p)
        \/ UnwatchInvoke(p) \/ UnwatchGot(p) \/ UnwatchPatched(p) \/ UnwatchSent(p)
        \/ EditInvoke(p) \/ EditGot(p) \/ EditPatched(p)
        \/ StoreList(p) \/ StoreGet(p) \/ StoreCreate(p) \/ StorePatch(p)
        \/ Return(p)

Spec == Init /\ [][Next]_vars

\* The commands invoked with the empty text as their reason.
NextEmptyReason ==
    \E p \in Procs :
        \/ WatchInvokeWith(p, {NoReason}) \/ WatchFetched(p) \/ WatchPosted(p)
        \/ UnwatchInvokeWith(p, {NoReason}) \/ UnwatchGot(p) \/ UnwatchPatched(p)
        \/ UnwatchSent(p)
        \/ EditInvoke(p) \/ EditGot(p) \/ EditPatched(p)
        \/ StoreList(p) \/ StoreGet(p) \/ StoreCreate(p) \/ StorePatch(p)
        \/ Return(p)

SpecEmptyReason == Init /\ [][NextEmptyReason]_vars

\* No request and no send has failed.
NoFailure ==
    \A p \in Procs :
        /\ resp[p].status < BadRequest
        /\ outcome[p] \notin {"raised", "cache_update_failed", "user_not_found"}

\* The runs in which the store answers every request with success and every
\* message is sent.
NextNoFailure ==
    \E p \in Procs :
        \/ WatchInvoke(p) /\ NoFailure'
        \/ WatchFetched(p) /\ NoFailure'
        \/ WatchPosted(p) /\ NoFailure'
        \/ UnwatchInvoke(p) /\ NoFailure'
        \/ UnwatchGot(p) /\ NoFailure'
        \/ UnwatchPatched(p) /\ NoFailure'
        \/ UnwatchSent(p) /\ NoFailure'
        \/ EditInvoke(p) /\ NoFailure'
        \/ EditGot(p) /\ NoFailure'
        \/ EditPatched(p) /\ NoFailure'
        \/ StoreList(p) /\ NoFailure'
        \/ StoreGet(p) /\ NoFailure'
        \/ StoreCreate(p) /\ NoFailure'
        \/ StorePatch(p) /\ NoFailure'
        \/ Return(p) /\ NoFailure'

SpecNoFailure == Init /\ [][NextNoFailure]_vars

(* ------------------------------- claims -------------------------------- *)

\* The step is one of p's invocation (of the coroutine or of the store serving it).
Stepped(p) == pc'[p] # pc[p]

\* The requests of a method that p's invocation has issued.
Issued(p, method) == {i \in 1..Len(log[p]) : log[p][i].method = method}

\* The nominations of a user that are active in the store.
ActiveOf(user_id) == {i \in Ids : store[i].user = user_id /\ store[i].active}

Target(p) == args[p].user.id

\* C1: a Watch that succeeds leaves its user in the cache, and a Watch whose
\* refresh succeeded and listed an active nomination of its user ends as
\* "already watched" without issuing a create request.
C1_WatchedThenRejected ==
    [][\A p \in Procs :
        /\ (pc[p] = "w_posted" /\ outcome'[p] = "watching")
              => Target(p) \in DOMAIN watched_users'
        /\ (/\ pc[p] = "w_fetched" /\ Stepped(p)
            /\ resp[p].status = Ok
            /\ \E i \in 1..Len(resp[p].data) : resp[p].data[i].user = Target(p))
              => /\ pc'[p] = "done" /\ outcome'[p] = "already_watched"
                 /\ log' = log /\ Issued(p, "POST") = {}
                 /\ store' = store]_vars

\* A Watch of a user with an active nomination has ended as "already watched",
\* having issued its refresh only.
C1_Witness ==
    \E p \in Procs :
        /\ pc[p] = "done" /\ cmd[p] = "watch" /\ outcome[p] = "already_watched"
        /\ Len(log[p]) = 1
        /\ ActiveOf(Target(p)) # {}
        /\ Target(p) \in DOMAIN watched_users

\* C2: a step of an Unwatch changes the cache only once the store has answered
\* its update with success and holds the nomination as ended; an Unwatch whose
\* update failed changes neither the store nor the cache and ends as a failure.
C2_EvictAfterAck ==
    [][\A p \in Procs : (cmd[p] = "unwatch" /\ Stepped(p)) =>
        /\ watched_users' # watched_users =>
              /\ Req(p).method = "PATCH" /\ resp[p].status = Ok
              /\ pc[p] = "u_send"
              /\ ~store[Req(p).id].active
              /\ watched_users' = RemoveUser(watched_users, Target(p))
        /\ (pc[p] = "u_patch" /\ resp'[p].status >= BadRequest) => store' = store
        /\ (pc[p] = "u_patched" /\ resp[p].status >= BadRequest) =>
              /\ pc'[p] = "done" /\ outcome'[p] = "raised"
              /\ store' = store /\ watched_users' = watched_users]_vars

\* An Unwatch whose update failed has ended; its user is still in the cache and
\* still has the active nomination.
C2_Witness ==
    \E p \in Procs :
        /\ pc[p] = "done" /\ cmd[p] = "unwatch" /\ outcome[p] = "raised"
        /\ Issued(p, "PATCH") # {} /\ resp[p].status = ServerError
        /\ Target(p) \in DOMAIN watched_users
        /\ Req(p).id \in ActiveOf(Target(p))

\* C3: an Edit issues at most one update, which names one field only: `reason`
\* when the record it fetched is active, `end_reason` when it is not.
C3_EditOneField ==
    \A p \in Procs : cmd[p] = "edit" =>
        /\ Cardinality(Issued(p, "PATCH")) <= 1
        /\ \A i \in Issued(p, "PATCH") :
              DOMAIN log[p][i].body \in {{"reason"}, {"end_reason"}}
        /\ pc[p] = "e_patch" =>
              DOMAIN Req(p).body =
                 IF resp[p].data[1].active THEN {"reason"} ELSE {"end_reason"}

\* An Edit has fetched an ended nomination and its update names end_reason.
C3_Witness ==
    \E p \in Procs :
        /\ pc[p] = "e_patch"
        /\ ~resp[p].data[1].active
        /\ DOMAIN Req(p).body = {"end_reason"}

\* C4: a create answered 400 with a `user` error ends the Watch as "user not
\* found", with the cache untouched and no further request.
C4_UnknownUser ==
    [][\A p \in Procs :
        (/\ pc[p] = "w_posted" /\ Stepped(p)
         /\ resp[p].status = BadRequest /\ "user" \in resp[p].err)
           => /\ pc'[p] = "done" /\ outcome'[p] = "user_not_found"
              /\ watched_users' = watched_users
              /\ store' = store
              /\ log' = log /\ Cardinality(Issued(p, "POST")) = 1]_vars

\* A Watch has ended as "user not found" and its user is not in the cache.
C4_Witness ==
    \E p \in Procs :
        /\ pc[p] = "done" /\ outcome[p] = "user_not_found"
        /\ resp[p].status = BadRequest
        /\ Target(p) \notin DOMAIN watched_users

\* C5: a Watch of a bot account, or of a member with a staff role, ends at once
\* as a refusal: no request is issued, the store and the cache are unchanged.
C5_PolicyRefusal ==
    [][\A p \in Procs :
        (/\ pc[p] = "idle" /\ cmd'[p] = "watch"
         /\ \/ args'[p].user.bot
            \/ args'[p].user.member /\ args'[p].user.staff_role)
           => /\ pc'[p] = "done"
              /\ outcome'[p] \in {"only_humans", "staff_member"}
              /\ args'[p].user.bot => outcome'[p] = "only_humans"
              /\ log'[p] = <<>>
              /\ store' = store /\ watched_users' = watched_users]_vars

\* A Watch of a bot account that has an active nomination and is in the cache
\* has been refused.
C5_Witness ==
    \E p \in Procs :
        /\ pc[p] = "done" /\ cmd[p] = "watch" /\ args[p].user.bot
        /\ outcome[p] = "only_humans"
        /\ ActiveOf(Target(p)) # {}
        /\ Target(p) \in DOMAIN watched_users

\* C6: an Unwatch whose query is answered with no record ends as "no active
\* nomination": no update is issued, the store and the cache are unchanged.
C6_NothingToEnd ==
    [][\A p \in Procs :
        (/\ pc[p] = "u_got" /\ Stepped(p)
         /\ resp[p].status = Ok /\ resp[p].data = <<>>)
           => /\ pc'[p] = "done" /\ outcome'[p] = "no_active_nomination"
              /\ log' = log /\ Issued(p, "PATCH") = {}
              /\ store' = store /\ watched_users' = watched_users]_vars

\* An Unwatch has ended as "no active nomination" while its user is in the cache.
C6_Witness ==
    \E p \in Procs :
        /\ pc[p] = "done" /\ cmd[p] = "unwatch" /\ outcome[p] = "no_active_nomination"
        /\ ActiveOf(Target(p)) = {}
        /\ Target(p) \in DOMAIN watched_users

\* C7: a Watch whose refresh failed ends with the error, issues no create
\* request and changes neither the store nor the cache.
C7_RefreshFailsClosed ==
    [][\A p \in Procs :
        (pc[p] = "w_fetched" /\ Stepped(p) /\ resp[p].status >= BadRequest)
           => /\ pc'[p] = "done" /\ outcome'[p] = "cache_update_failed"
              /\ log' = log /\ Issued(p, "POST") = {}
              /\ store' = store /\ watched_users' = watched_users]_vars

\* A Watch of a user that is neither nominated nor cached has ended on the
\* failed refresh.
C7_Witness ==
    \E p \in Procs :
        /\ pc[p] = "done" /\ outcome[p] = "cache_update_failed"
        /\ resp[p].status = ServerError
        /\ Len(log[p]) = 1
        /\ ActiveOf(Target(p)) = {}
        /\ Target(p) \notin DOMAIN watched_users

\* C8: the step that ends a command whose transition the store has acknowledged
\* leaves the cache with the matching effect: the user inserted by a Watch,
\* evicted by an Unwatch.
C8_CacheEffectBeforeReturn ==
    [][\A p \in Procs :
        /\ (pc[p] = "w_posted" /\ resp[p].status = Created /\ pc'[p] = "done")
              => Target(p) \in DOMAIN watched_users'
        /\ (pc[p] = "u_send" /\ resp[p].status = Ok /\ pc'[p] = "done")
              => Target(p) \notin DOMAIN watched_users']_vars

\* C9: an Edit whose fetch is answered 404 ends as "not found", one whose fetch
\* fails otherwise ends as a failure; neither issues an update nor changes the
\* store or the cache.
C9_EditFetchErrors ==
    [][\A p \in Procs :
        (pc[p] = "e_got" /\ Stepped(p) /\ resp[p].status >= BadRequest)
           => /\ pc'[p] = "done"
              /\ outcome'[p] = IF resp[p].status = NotFound THEN "not_found" ELSE "raised"
              /\ log' = log /\ Issued(p, "PATCH") = {}
              /\ store' = store /\ watched_users' = watched_users]_vars

\* An Edit of an id the store does not hold has ended as "not found".
C9_Witness ==
    \E p \in Procs :
        /\ pc[p] = "done" /\ cmd[p] = "edit" /\ outcome[p] = "not_found"
        /\ args[p].nomination_id \notin Ids
        /\ Len(log[p]) = 1

\* C10: the store holds at most one active nomination per user.
C10_OneActivePerUser ==
    \A u \in UserIds : Cardinality(ActiveOf(u)) <= 1

\* C11: the store's `reason` of a nomination changes only while the nomination
\* is active, its `end_reason` only in a step that leaves the nomination ended.
C11_FieldsByStatus ==
    [][\A i \in Ids :
        /\ store'[i].reason # store[i].reason => store[i].active
        /\ store'[i].end_reason # store[i].end_reason => ~store'[i].active]_vars

\* C12: an ended nomination stays ended, and the ending update of an Unwatch is
\* applied only to a nomination that is still active.
C12_EndedOnce ==
    [][\A i \in Ids :
        /\ ~store[i].active => ~store'[i].active
        /\ \A p \in Procs :
              (/\ pc[p] = "u_patch" /\ pc'[p] = "u_patched"
               /\ Req(p).id = i /\ resp'[p].status = Ok)
                 => store[i].active]_vars

\* C13: an Unwatch whose query is answered with more than one record fails: no
\* update is issued, the store and the cache are unchanged.
C13_ManyActiveFails ==
    [][\A p \in Procs :
        (/\ pc[p] = "u_got" /\ Stepped(p)
         /\ resp[p].status = Ok /\ Len(resp[p].data) > 1)
           => /\ pc'[p] = "done" /\ outcome'[p] = "raised"
              /\ log' = log /\ Issued(p, "PATCH") = {}
              /\ store' = store /\ watched_users' = watched_users]_vars

\* An Unwatch of a user with two active nominations has failed and both are
\* still active.
C13_Witness ==
    \E p \in Procs :
        /\ pc[p] = "done" /\ cmd[p] = "unwatch" /\ outcome[p] = "raised"
        /\ resp[p].status = Ok /\ Len(resp[p].data) = 2
        /\ Len(log[p]) = 1
        /\ Cardinality(ActiveOf(Target(p))) = 2

\* C14: a create answered with a status of 400 or more that is not the 400 with
\* a `user` error ends the Watch as a failure, with the cache untouched.
C14_OtherCreateErrors ==
    [][\A p \in Procs :
        (/\ pc[p] = "w_posted" /\ Stepped(p)
         /\ resp[p].status >= BadRequest
         /\ ~(resp[p].status = BadRequest /\ "user" \in resp[p].err))
           => /\ pc'[p] = "done" /\ outcome'[p] = "raised"
              /\ log' = log
              /\ store' = store /\ watched_users' = watched_users]_vars

\* A Watch has failed on a 400 that carries no `user` error; its user is not in
\* the cache.
C14_Witness ==
    \E p \in Procs :
        /\ pc[p] = "done" /\ cmd[p] = "watch" /\ outcome[p] = "raised"
        /\ resp[p].status = BadRequest /\ "user" \notin resp[p].err
        /\ Target(p) \notin DOMAIN watched_users

\* C15: a Watch whose successful refresh lists no active nomination of its user
\* is not rejected but issues the create request; a create that succeeds adds
\* an active nomination under a new id and leaves the others as they are; the
\* Watch then puts the user in the cache.
C15_WatchAgain ==
    [][\A p \in Procs :
        /\ (/\ pc[p] = "w_fetched" /\ Stepped(p)
            /\ resp[p].status = Ok
            /\ \A i \in 1..Len(resp[p].data) : resp[p].data[i].user # Target(p))
              => /\ pc'[p] = "w_post" /\ outcome'[p] # "already_watched"
                 /\ log'[p][Len(log'[p])].method = "POST"
                 /\ log'[p][Len(log'[p])].body.user = Target(p)
        /\ (pc[p] = "w_post" /\ pc'[p] = "w_posted" /\ resp'[p].status = Created)
              => /\ Len(store') = Len(store) + 1
                 /\ \A i \in Ids : store'[i] = store[i] /\ store'[i].id # store'[Len(store')].id
                 /\ store'[Len(store')].active
                 /\ store'[Len(store')].user = Target(p)
                 /\ resp'[p].data = <<store'[Len(store')]>>
        /\ (pc[p] = "w_posted" /\ Stepped(p) /\ resp[p].status = Created)
              => /\ Target(p) \in DOMAIN watched_users'
                 /\ watched_users'[Target(p)] = resp[p].data[1]]_vars

\* A Watch has succeeded for a user whose earlier nomination was ended: the
\* earlier one is still ended, the new one is active and cached.
C15_Witness ==
    \E p \in Procs :
        /\ pc[p] = "done" /\ cmd[p] = "watch" /\ outcome[p] = "watching"
        /\ \E i, j \in Ids :
              /\ i < j
              /\ store[i].user = Target(p) /\ ~store[i].active
              /\ store[j].user = Target(p) /\ store[j].active
              /\ resp[p].data[1].id = j
        /\ Target(p) \in DOMAIN watched_users

C17_CacheMirrorsStore ==
    (\A p \in Procs : pc[p] \in {"idle", "done"})
        => DOMAIN watched_users = {u \in UserIds : ActiveOf(u) # {}}

====
